---- MODULE Spec2Model ----
(***************************************************************************)
(* DirModel of qmlfilemuncher (src/main.cpp): a QAbstractListModel over    *)
(* the entries of one directory.  The model keeps mCurrentDir and the      *)
(* sorted snapshot mDirectoryContents; setPath rebuilds the snapshot from  *)
(* the live filesystem, rm and rename change the filesystem and refresh.   *)
(***************************************************************************)
EXTENDS Integers, Sequences, FiniteSets, TLC

\* ------------------------------------------------------------------ bounds
\* at most this many entries exist in the modelled filesystem at once
MaxFiles == 3
\* Remove is called with at most this many paths
MaxPaths == 2

\* ------------------------------------------------------- names and paths
\* File names are sequences of code points: 46 '.', 66 'B', 97 'a', 104 'h'.
NameHidden == <<46, 104>>
NameLowerA == <<97>>
NameUpperB == <<66>>
Names == {NameHidden, NameLowerA, NameUpperB}

\* the entries "." and ".." every directory iteration reports
DotEntries == << <<46>>, <<46, 46>> >>

\* directories that exist; "." is the working directory
DirKeys == {".", "/d"}
\* path strings handed to setPath; "/nx" names no directory
PathInputs == {".", "/d", "/d/", "/nx"}

Kinds == {"none", "file", "dir"}

VARIABLES
    fs,                  \* the live filesystem: directory -> name -> kind
    mCurrentDir,         \* QDir mCurrentDir, as its path()
    mDirectoryContents,  \* QVector<QFileInfo> mDirectoryContents
    last,                \* what the last command did (calls, signals, result)
    roleNames,           \* the role table handed to setRoleNames: id -> key
    mRoleMapping,        \* QHash<QByteArray, int> mRoleMapping: key -> id
    assertsEnabled,      \* the build evaluates Q_ASSERT (QT_NO_DEBUG not set)
    aborted              \* a failed Q_ASSERT has terminated the process

vars == <<fs, mCurrentDir, mDirectoryContents, last,
          roleNames, mRoleMapping, assertsEnabled, aborted>>

\* ------------------------------------------------------------------- roles
\* enum Roles, counted from Qt::UserRole
FileNameRole == 32
CreationDateRole == FileNameRole + 1
ModifiedDateRole == FileNameRole + 2
FileSizeRole == FileNameRole + 3
IconSourceRole == FileNameRole + 4
FilePathRole == FileNameRole + 5
IsDirRole == FileNameRole + 6
IsFileRole == FileNameRole + 7

\* roleNames() of a fresh QAbstractListModel: the six standard item roles
DefaultRoleNames ==
    [r \in 0..5 |-> CASE r = 0 -> "display" [] r = 1 -> "decoration"
                      [] r = 2 -> "edit" [] r = 3 -> "toolTip"
                      [] r = 4 -> "statusTip" [] r = 5 -> "whatsThis"]

\* QHash::insert: the value of key k is replaced or added
HashInsert(h, k, v) ==
    [x \in DOMAIN h \cup {k} |-> IF x = k THEN v ELSE h[x]]

\* the table the constructor builds: roleNames() and eight inserts
CtorRoles ==
    LET r0 == DefaultRoleNames
        r1 == HashInsert(r0, FileNameRole, "fileName")
        r2 == HashInsert(r1, CreationDateRole, "creationDate")
        r3 == HashInsert(r2, ModifiedDateRole, "modifiedDate")
        r4 == HashInsert(r3, FileSizeRole, "fileSize")
        r5 == HashInsert(r4, IconSourceRole, "iconSource")
        r6 == HashInsert(r5, FilePathRole, "filePath")
        r7 == HashInsert(r6, IsDirRole, "isDir")
    IN  HashInsert(r7, IsFileRole, "isFile")

\* the reverse mapping: mRoleMapping.insert(it.value(), it.key()) for every
\* entry of the table
ReverseMapping(roles) ==
    [k \in {roles[r] : r \in DOMAIN roles} |->
        CHOOSE r \in DOMAIN roles : roles[r] = k]

\* Q_ASSERT(roles.count() == IsFileRole - FileNameRole)
CtorAssertion(roles) == Cardinality(DOMAIN roles) = IsFileRole - FileNameRole

\* no command touches the role tables or the build
RolesUnchanged == UNCHANGED <<roleNames, mRoleMapping, assertsEnabled>>

\* ------------------------------------------------------------ filesystem
Children(f, d) == IF d \in DirKeys THEN {n \in Names : f[d][n] # "none"} ELSE {}

EntryCount(f) == Cardinality({x \in DirKeys \X Names : f[x[1]][x[2]] # "none"})

\* QDir(pathName).path(): the path without a trailing separator
QDirPath(p) == IF p = "/d/" THEN "/d" ELSE p

\* QDir::path() of the default-constructed mCurrentDir
DefaultDir == "."

\* QFileInfo::size() of the entries of the modelled filesystem, in bytes
EntrySize(d, n, isDir) ==
    IF isDir THEN 4096
    ELSE IF n = NameLowerA THEN (IF d = "." THEN 500 ELSE 5 * 1024 * 1024)
    ELSE IF n = NameUpperB THEN (IF d = "." THEN 2048 ELSE 1023)
    ELSE 0

\* the QFileInfo the iterator hands out for child n of directory d
FileInfo(f, d, n) ==
    LET isDir == IF n \in Names THEN f[d][n] = "dir" ELSE TRUE
    IN  [dir |-> d, name |-> n, isDir |-> isDir, size |-> EntrySize(d, n, isDir)]

\* all orders in which a set of names can be enumerated
RECURSIVE Orders(_)
Orders(S) ==
    IF S = {} THEN {<<>>}
    ELSE UNION {{<<n>> \o t : t \in Orders(S \ {n})} : n \in S}

\* QDirIterator over directory d: "." and "..", then the children in an
\* order the operating system chooses; nothing for a missing directory
ReadDir(f, d) ==
    IF d \in DirKeys
    THEN {DotEntries \o o : o \in Orders(Children(f, d))}
    ELSE {<<>>}

\* ------------------------------------------------------------- fileCompare
\* QString::localeAwareCompare: letters first compared without case, a
\* lower-case letter before its upper-case form when otherwise equal
Primary(c) == IF c >= 65 /\ c <= 90 THEN c + 32 ELSE c

RECURSIVE LexCompare(_, _)
LexCompare(a, b) ==
    IF a = <<>> /\ b = <<>> THEN 0
    ELSE IF a = <<>> THEN -1
    ELSE IF b = <<>> THEN 1
    ELSE IF Head(a) < Head(b) THEN -1
    ELSE IF Head(a) > Head(b) THEN 1
    ELSE LexCompare(Tail(a), Tail(b))

Fold(s) == [i \in 1..Len(s) |-> Primary(s[i])]
\* case level: lower case (larger code point) sorts first
CaseKey(s) == [i \in 1..Len(s) |-> IF s[i] >= 65 /\ s[i] <= 90 THEN 1 ELSE 0]

localeAwareCompare(a, b) ==
    IF LexCompare(Fold(a), Fold(b)) # 0
    THEN LexCompare(Fold(a), Fold(b))
    ELSE LexCompare(CaseKey(a), CaseKey(b))

\* faulty variant: compares names only, directories not placed first
fileCompareNoDirs(a, b) == localeAwareCompare(a.name, b.name) < 0

\* faulty variant: compares code points instead of collating
fileCompareCodePoint(a, b) ==
    IF a.isDir /\ ~b.isDir THEN TRUE
    ELSE IF b.isDir /\ ~a.isDir THEN FALSE
    ELSE LexCompare(a.name, b.name) < 0

fileCompare(a, b) ==
    IF a.isDir /\ ~b.isDir THEN TRUE
    ELSE IF b.isDir /\ ~a.isDir THEN FALSE
    ELSE localeAwareCompare(a.name, b.name) < 0

\* std::sort with fileCompare, as an insertion sort
RECURSIVE InsertSorted(_, _)
InsertSorted(s, e) ==
    IF s = <<>> THEN <<e>>
    ELSE IF fileCompare(e, Head(s)) THEN <<e>> \o s
    ELSE <<Head(s)>> \o InsertSorted(Tail(s), e)

\* faulty variant: the entries stay in the order of the scan
SortNone(s) == s

RECURSIVE Sort(_)
Sort(s) == IF s = <<>> THEN <<>> ELSE InsertSorted(Sort(Tail(s)), Head(s))

\* ------------------------------------------------------------------ setPath
\* faulty variant: hidden entries are not skipped
ScanKeepHidden(f, d, order) ==
    [i \in 1..Len(order) |-> FileInfo(f, d, order[i])]

\* faulty variant: the scan stops after the first entry it keeps
RECURSIVE ScanFirstOnly(_, _, _)
ScanFirstOnly(f, d, order) ==
    IF order = <<>> THEN <<>>
    ELSE IF Head(order)[1] = 46 THEN ScanFirstOnly(f, d, Tail(order))
    ELSE <<FileInfo(f, d, Head(order))>>

\* the while loop of setPath: skip names starting with '.', append the rest
RECURSIVE Scan(_, _, _)
Scan(f, d, order) ==
    IF order = <<>> THEN <<>>
    ELSE IF Head(order)[1] = 46 THEN Scan(f, d, Tail(order))
    ELSE <<FileInfo(f, d, Head(order))>> \o Scan(f, d, Tail(order))

\* the listings setPath(pathName) can commit on filesystem f
Listings(f, pathName) ==
    {Sort(Scan(f, QDirPath(pathName), order)) :
        order \in ReadDir(f, QDirPath(pathName))}

\* the record of a command: its arguments, the QFile::remove calls it made
\* (path, result, whether qWarning reported it), the modelReset and
\* pathChanged signals it emitted and its return value
NoCall == [op |-> "none", path |-> "", paths |-> <<>>, row |-> -1,
           newName |-> <<>>, ret |-> FALSE, removeCalls |-> <<>>,
           modelReset |-> 0, pathChanged |-> 0,
           stringRole |-> "", value |-> [valid |-> FALSE],
           signals |-> <<>>]

\* what a subscriber reads from the model inside the handler of a signal
Seen(signal, dir, contents) ==
    [signal |-> signal, path |-> dir, contents |-> contents]

\* faulty variant: pathChanged is emitted before the listing is committed
SetPathRunEarlySignal(pathName, l) ==
    LET cleared == <<>>
        dir1    == QDirPath(pathName)
    IN  [dir |-> dir1, contents |-> l,
         signals |-> <<Seen("pathChanged", dir1, cleared),
                       Seen("modelReset", dir1, l)>>]

\* the statements of setPath once the scan produced the sorted listing l:
\* clear, mCurrentDir = tmpDir, mDirectoryContents = directoryContents,
\* emit pathChanged, endResetModel (which emits modelReset)
SetPathRun(pathName, l) ==
    LET cleared   == <<>>
        dir1      == QDirPath(pathName)
        contents1 == l
    IN  [dir |-> dir1, contents |-> contents1,
         signals |-> <<Seen("pathChanged", dir1, contents1),
                       Seen("modelReset", dir1, contents1)>>]

\* the record of a command that ran setPath once
Reloaded(call, run) ==
    [call EXCEPT !.modelReset = 1, !.pathChanged = 1, !.signals = run.signals]

\* the state after DirModel(parent); a build with assertions stops in the
\* constructor when its Q_ASSERT is false
Init ==
    /\ fs = [d \in DirKeys |-> [n \in Names |-> "none"]]
    /\ mCurrentDir = DefaultDir
    /\ mDirectoryContents = <<>>
    /\ last = NoCall
    /\ roleNames = CtorRoles
    /\ mRoleMapping = ReverseMapping(CtorRoles)
    /\ assertsEnabled \in BOOLEAN
    /\ aborted = (assertsEnabled /\ ~CtorAssertion(CtorRoles))

\* void setPath(const QString &pathName)
setPath(pathName) ==
    /\ ~aborted
    /\ \E l \in Listings(fs, pathName) :
          LET run == SetPathRun(pathName, l)
          IN  /\ mDirectoryContents' = run.contents
              /\ mCurrentDir' = run.dir
              /\ last' = Reloaded([NoCall EXCEPT !.op = "setPath",
                                                 !.path = pathName], run)
    /\ UNCHANGED <<fs, aborted>>
    /\ RolesUnchanged

\* faulty variant: refresh loads the default directory, not path()
refreshDefaultDir ==
    /\ ~aborted
    /\ \E l \in Listings(fs, DefaultDir) :
          LET run == SetPathRun(DefaultDir, l)
          IN  /\ mDirectoryContents' = run.contents
              /\ mCurrentDir' = run.dir
              /\ last' = Reloaded([NoCall EXCEPT !.op = "refresh",
                                                 !.path = DefaultDir], run)
    /\ UNCHANGED <<fs, aborted>>
    /\ RolesUnchanged

\* void refresh(): setPath(path())
refresh ==
    /\ ~aborted
    /\ \E l \in Listings(fs, mCurrentDir) :
          LET run == SetPathRun(mCurrentDir, l)
          IN  /\ mDirectoryContents' = run.contents
              /\ mCurrentDir' = run.dir
              /\ last' = Reloaded([NoCall EXCEPT !.op = "refresh",
                                                 !.path = mCurrentDir], run)
    /\ UNCHANGED <<fs, aborted>>
    /\ RolesUnchanged

\* ----------------------------------------------------------------------- rm
\* paths handed to rm, as name n in directory d: two entries of the working
\* directory, which is the listed directory or another one
RmPaths == {[dir |-> ".", name |-> NameLowerA],
            [dir |-> ".", name |-> NameUpperB]}

RECURSIVE SeqsUpTo(_, _)
SeqsUpTo(S, n) ==
    IF n = 0 THEN {<<>>}
    ELSE LET shorter == SeqsUpTo(S, n - 1)
         IN  shorter \cup {s \o <<x>> : s \in {t \in shorter : Len(t) = n - 1}, x \in S}

RmInputs == SeqsUpTo(RmPaths, MaxPaths)

\* faulty variant: a directory is removed like a file
QFileRemoveAnyKind(f, p) == f[p.dir][p.name] # "none"

\* QFile::remove(path): unlink, which removes a file and nothing else
QFileRemoveOk(f, p) == f[p.dir][p.name] = "file"
QFileRemove(f, p) ==
    IF QFileRemoveOk(f, p) THEN [f EXCEPT ![p.dir][p.name] = "none"] ELSE f

\* faulty variant: the batch stops at the first removal that fails
RECURSIVE RmLoopAbort(_, _, _, _)
RmLoopAbort(f, paths, error, calls) ==
    IF paths = <<>> THEN [fs |-> f, removeCalls |-> calls]
    ELSE LET p  == Head(paths)
             ok == QFileRemoveOk(f, p)
             e2 == error \/ ok
             c2 == Append(calls, [path |-> p, ok |-> ok, warned |-> e2])
         IN  IF ok THEN RmLoopAbort(QFileRemove(f, p), Tail(paths), FALSE, c2)
             ELSE [fs |-> f, removeCalls |-> c2]

\* the foreach loop of rm: error |= QFile::remove(path); a warning and
\* error = false when error is set
RECURSIVE RmLoop(_, _, _, _)
RmLoop(f, paths, error, calls) ==
    IF paths = <<>> THEN [fs |-> f, removeCalls |-> calls]
    ELSE LET p  == Head(paths)
             ok == QFileRemoveOk(f, p)
             e2 == error \/ ok
             c2 == Append(calls, [path |-> p, ok |-> ok, warned |-> e2])
         IN  RmLoop(QFileRemove(f, p), Tail(paths), IF e2 THEN FALSE ELSE e2, c2)

\* faulty variant: the reload runs before the removals
rmReloadFirst(paths) ==
    LET r == RmLoop(fs, paths, FALSE, <<>>)
    IN  /\ ~aborted
        /\ UNCHANGED aborted
        /\ RolesUnchanged
        /\ fs' = r.fs
        /\ \E l \in Listings(fs, mCurrentDir) :
              LET run == SetPathRun(mCurrentDir, l)
              IN  /\ mDirectoryContents' = run.contents
                  /\ mCurrentDir' = run.dir
                  /\ last' = Reloaded([NoCall EXCEPT !.op = "rm", !.paths = paths,
                                          !.removeCalls = r.removeCalls], run)

\* void rm(const QStringList &paths)
rm(paths) ==
    LET r == RmLoop(fs, paths, FALSE, <<>>)
    IN  /\ ~aborted
        /\ UNCHANGED aborted
        /\ RolesUnchanged
        /\ fs' = r.fs
        /\ \E l \in Listings(r.fs, mCurrentDir) :
              LET run == SetPathRun(mCurrentDir, l)
              IN  /\ mDirectoryContents' = run.contents
                  /\ mCurrentDir' = run.dir
                  /\ last' = Reloaded([NoCall EXCEPT !.op = "rm", !.paths = paths,
                                          !.removeCalls = r.removeCalls], run)

\* ------------------------------------------------------------------- rename
\* QFile::rename and QDir::rename: fail when the source is gone or the
\* destination exists, otherwise move the entry
RenameOk(f, d, old, new) ==
    d \in DirKeys /\ f[d][old] # "none" /\ f[d][new] = "none"
Renamed(f, d, old, new) ==
    IF RenameOk(f, d, old, new)
    THEN [f EXCEPT ![d][new] = f[d][old], ![d][old] = "none"]
    ELSE f

\* Q_ASSERT(row >= 0 && row < mDirectoryContents.count())
RowInRange(row) == row >= 0 /\ row < Len(mDirectoryContents)

\* row arguments: every row of the listing, one below and one above
RowInputs == -1..Len(mDirectoryContents)

\* faulty variant: no reload after a successful rename of a file
renameNoReload(row, newName) ==
    /\ ~aborted
    /\ RowInRange(row)
    /\ LET fi     == mDirectoryContents[row + 1]
           retval == RenameOk(fs, fi.dir, fi.name, newName)
       IN  /\ fs' = Renamed(fs, fi.dir, fi.name, newName)
           /\ UNCHANGED <<mCurrentDir, mDirectoryContents, aborted>>
           /\ last' = [NoCall EXCEPT !.op = "rename", !.row = row,
                                     !.newName = newName, !.ret = retval]
    /\ RolesUnchanged

\* faulty variant: an out-of-range row is not rejected and reloads
renameNoRangeCheck(row, newName) ==
    /\ ~aborted
    /\ \E l \in Listings(fs, mCurrentDir) :
          LET run == SetPathRun(mCurrentDir, l)
          IN  /\ mDirectoryContents' = run.contents
              /\ mCurrentDir' = run.dir
              /\ last' = Reloaded([NoCall EXCEPT !.op = "rename", !.row = row,
                                      !.newName = newName, !.ret = FALSE], run)
    /\ UNCHANGED <<fs, aborted>>
    /\ RolesUnchanged

\* bool rename(int row, const QString &newName)
rename(row, newName) ==
    /\ ~aborted
    /\ RolesUnchanged
    /\ IF assertsEnabled /\ ~RowInRange(row)
       THEN \* the Q_ASSERT fails: qFatal ends the process
            /\ aborted' = TRUE
            /\ last' = [NoCall EXCEPT !.op = "rename", !.row = row,
                                      !.newName = newName]
            /\ UNCHANGED <<fs, mCurrentDir, mDirectoryContents>>
       ELSE IF ~RowInRange(row)
       THEN \* "Out of bounds access", return false
            /\ last' = [NoCall EXCEPT !.op = "rename", !.row = row,
                                      !.newName = newName, !.ret = FALSE]
            /\ UNCHANGED <<fs, mCurrentDir, mDirectoryContents, aborted>>
       ELSE LET fi     == mDirectoryContents[row + 1]
                retval == RenameOk(fs, fi.dir, fi.name, newName)
                reload == IF ~fi.isDir THEN retval ELSE TRUE
                call   == [NoCall EXCEPT !.op = "rename", !.row = row,
                                         !.newName = newName, !.ret = retval]
            IN  /\ fs' = Renamed(fs, fi.dir, fi.name, newName)
                /\ IF reload
                   THEN \E l \in Listings(fs', mCurrentDir) :
                           LET run == SetPathRun(mCurrentDir, l)
                           IN  /\ mDirectoryContents' = run.contents
                               /\ mCurrentDir' = run.dir
                               /\ last' = Reloaded(call, run)
                   ELSE /\ last' = call
                        /\ UNCHANGED <<mCurrentDir, mDirectoryContents>>
                /\ UNCHANGED aborted

\* --------------------------------------------------------------------- data
\* QVariant(): the invalid (empty) value
QVariantInvalid == [valid |-> FALSE]
QVariant(v) == [valid |-> TRUE, v |-> v]

\* QString::number(n) for n >= 0: the decimal digits, most significant first
RECURSIVE Decimal(_)
Decimal(n) == IF n < 10 THEN <<n>> ELSE Append(Decimal(n \div 10), n % 10)

\* faulty variant: the kilobyte tier ends one kilobyte late
FileSizeTextLate(size) ==
    LET kb == size \div 1024
    IN  IF kb < 1 THEN [number |-> Decimal(size), unit |-> " bytes"]
        ELSE IF kb <= 1024 THEN [number |-> Decimal(kb), unit |-> " kb"]
        ELSE [number |-> Decimal(kb \div 1024), unit |-> "mb"]

\* case FileSizeRole: the number and the unit text appended to it
FileSizeText(size) ==
    LET kb == size \div 1024
    IN  IF kb < 1 THEN [number |-> Decimal(size), unit |-> " bytes"]
        ELSE IF kb < 1024 THEN [number |-> Decimal(kb), unit |-> " kb"]
        ELSE [number |-> Decimal(kb \div 1024), unit |-> "mb"]

\* QString::endsWith
EndsWith(name, suffix) ==
    /\ Len(name) >= Len(suffix)
    /\ SubSeq(name, Len(name) - Len(suffix) + 1, Len(name)) = suffix

\* ".jpg" and ".png" as code points
SuffixJpg == <<46, 106, 112, 103>>
SuffixPng == <<46, 112, 110, 103>>

\* QFileInfo::filePath(): the directory and the name joined by a separator
FilePath(fi) == <<fi.dir, "/", fi.name>>

\* index(row, 0).row(): the row when hasIndex(row, 0), else -1
IndexRow(contents, row) == IF row >= 0 /\ row < Len(contents) THEN row ELSE -1

\* faulty variant: the row is not tested against the listing
DataRoleNoRowCheck(contents, idxRow, role) ==
    IF role < FileNameRole \/ role > IsFileRole THEN QVariantInvalid
    ELSE QVariant(idxRow)

\* QVariant data(const QModelIndex &index, int role) const
DataRole(contents, idxRow, role) ==
    IF role < FileNameRole \/ role > IsFileRole THEN QVariantInvalid
    ELSE IF idxRow < 0 \/ idxRow >= Len(contents) THEN QVariantInvalid
    ELSE LET fi == contents[idxRow + 1]
         IN  CASE role = FileNameRole -> QVariant(fi.name)
               [] role = CreationDateRole -> QVariant(<<"created", FilePath(fi)>>)
               [] role = ModifiedDateRole -> QVariant(<<"lastModified", FilePath(fi)>>)
               [] role = FileSizeRole -> QVariant(FileSizeText(fi.size))
               [] role = IconSourceRole ->
                    IF EndsWith(fi.name, SuffixJpg) \/ EndsWith(fi.name, SuffixPng)
                    THEN QVariant(<<"file://", FilePath(fi)>>)
                    ELSE IF fi.isDir
                    THEN QVariant("image://theme/icon-m-common-directory")
                    ELSE QVariant("image://theme/icon-m-content-document")
               [] role = FilePathRole -> QVariant(FilePath(fi))
               [] role = IsDirRole -> QVariant(fi.isDir)
               [] role = IsFileRole -> QVariant(~fi.isDir)
               [] OTHER -> QVariantInvalid

\* QVariant data(int row, const QByteArray &stringRole) const
Data(mapping, contents, row, stringRole) ==
    IF stringRole \notin DOMAIN mapping THEN QVariantInvalid
    ELSE DataRole(contents, IndexRow(contents, row), mapping[stringRole])

\* the eight keys of the role table's own roles
RoleKeys == {"fileName", "creationDate", "modifiedDate", "fileSize",
             "iconSource", "filePath", "isDir", "isFile"}
\* role arguments: the eight keys, an inherited key and an unknown one
StringRoleInputs == RoleKeys \cup {"display", "noSuchRole"}

\* the reads the view makes between commands: the name of the first row
ViewReads == {"fileName"}

\* faulty variant: the read looks the entry up again and updates its record
dataStat(row, stringRole) ==
    /\ ~aborted
    /\ last' = [NoCall EXCEPT !.op = "data", !.row = row,
                              !.stringRole = stringRole,
                              !.value = Data(mRoleMapping, mDirectoryContents,
                                             row, stringRole)]
    /\ mDirectoryContents' =
          [i \in 1..Len(mDirectoryContents) |->
              IF i = row + 1
              THEN FileInfo(fs, mDirectoryContents[i].dir, mDirectoryContents[i].name)
              ELSE mDirectoryContents[i]]
    /\ UNCHANGED <<fs, mCurrentDir, aborted>>
    /\ RolesUnchanged

\* a call of data(row, stringRole) from the view
data(row, stringRole) ==
    /\ ~aborted
    /\ last' = [NoCall EXCEPT !.op = "data", !.row = row,
                              !.stringRole = stringRole,
                              !.value = Data(mRoleMapping, mDirectoryContents,
                                             row, stringRole)]
    /\ UNCHANGED <<fs, mCurrentDir, mDirectoryContents, aborted>>
    /\ RolesUnchanged

\* -------------------------------------------------------------- environment
\* another process creates, deletes or replaces one entry
FsChange ==
    \E d \in DirKeys, n \in Names, k \in Kinds :
        /\ fs[d][n] # k
        /\ fs' = [fs EXCEPT ![d][n] = k]
        /\ EntryCount(fs') <= MaxFiles
        /\ last' = NoCall
        /\ UNCHANGED <<mCurrentDir, mDirectoryContents, aborted>>
        /\ RolesUnchanged

Next ==
    \/ \E p \in PathInputs : setPath(p)
    \/ refresh
    \/ \E paths \in RmInputs : rm(paths)
    \/ \E row \in RowInputs, n \in Names : rename(row, n)
    \/ \E k \in ViewReads : data(0, k)
    \/ FsChange

Spec == Init /\ [][Next]_vars

\* ------------------------------------------------- the accessor on its own
\* the filesystems within the bound
FsStates == {f \in [DirKeys -> [Names -> Kinds]] : EntryCount(f) <= MaxFiles}

\* the model right after setPath(p) on any filesystem within the bound
InitData ==
    /\ roleNames = CtorRoles
    /\ mRoleMapping = ReverseMapping(CtorRoles)
    /\ assertsEnabled = FALSE
    /\ aborted = FALSE
    /\ \E f \in FsStates, p \in PathInputs :
          /\ fs = f
          /\ \E l \in Listings(f, p) :
                LET run == SetPathRun(p, l)
                IN  /\ mDirectoryContents = run.contents
                    /\ mCurrentDir = run.dir
                    /\ last = Reloaded([NoCall EXCEPT !.op = "setPath",
                                                      !.path = p], run)

NextData == \E row \in RowInputs, k \in StringRoleInputs : data(row, k)

SpecData == InitData /\ [][NextData]_vars

\* ------------------------------------------------ the size text on its own
\* sizes are taken this far below and above each tier boundary
SizeWindow == 12
\* 0, the two tier boundaries, and the 5 MiB and 1 GiB marks
SizeMarks == {0, 1024, 1024 * 1024, 5 * 1024 * 1024, 1024 * 1024 * 1024}
SizeInputs ==
    {m + o : m \in SizeMarks, o \in (0 - SizeWindow)..SizeWindow} \cap Nat

\* the working directory holds one file of s bytes and has been loaded
InitSize ==
    /\ roleNames = CtorRoles
    /\ mRoleMapping = ReverseMapping(CtorRoles)
    /\ assertsEnabled = FALSE
    /\ aborted = FALSE
    /\ fs = [d \in DirKeys |-> [n \in Names |->
                IF d = "." /\ n = NameLowerA THEN "file" ELSE "none"]]
    /\ mCurrentDir = DefaultDir
    /\ \E s \in SizeInputs :
          mDirectoryContents =
              <<[dir |-> ".", name |-> NameLowerA, isDir |-> FALSE, size |-> s]>>
    /\ last = NoCall

NextSize == data(0, "fileSize")

SpecSize == InitSize /\ [][NextSize]_vars

\* ------------------------------------------------------------------ helpers
Rows == 1..Len(mDirectoryContents)
Hidden(n) == n[1] = 46
VisibleChildren(f, d) == {n \in Children(f, d) : ~Hidden(n)}
ListedNames == {mDirectoryContents[i].name : i \in Rows}
Missing(pathName) == QDirPath(pathName) \notin DirKeys

\* the listing holds one correct record per visible child of d, nothing else
Reflects(f, d) ==
    /\ Len(mDirectoryContents) = Cardinality(VisibleChildren(f, d))
    /\ ListedNames = VisibleChildren(f, d)
    /\ \A i \in Rows :
          /\ mDirectoryContents[i].dir = d
          /\ mDirectoryContents[i].isDir = (f[d][mDirectoryContents[i].name] = "dir")

\* ------------------------------------------------------------------- claims
\* C1: a Load (setPath) of a path that does not exist or is not readable
\* leaves the previous Listing and the previous current path unchanged.
C1_FailedLoadKeepsState ==
    [][(last'.op = "setPath" /\ Missing(last'.path))
        => (mDirectoryContents' = mDirectoryContents /\ mCurrentDir' = mCurrentDir)]_vars

\* C2: no row holding a non-directory is directly followed by a row holding
\* a directory: directories precede non-directories regardless of names.
C2_DirsBeforeFiles ==
    \A i \in Rows : i + 1 \in Rows =>
        ~(~mDirectoryContents[i].isDir /\ mDirectoryContents[i + 1].isDir)

\* a directory listed before a file whose name collates first
C2_Witness ==
    /\ last.op \in {"setPath", "refresh", "rm", "rename"}
    /\ \E i \in Rows : i + 1 \in Rows
          /\ mDirectoryContents[i].isDir /\ ~mDirectoryContents[i + 1].isDir
          /\ localeAwareCompare(mDirectoryContents[i + 1].name,
                                mDirectoryContents[i].name) < 0

\* C3: for rows i < j of the same directory-classification the name at i is
\* less than or equal to the name at j under the sort's name comparison.
C3_NamesNonDecreasing ==
    \A i \in Rows, j \in Rows :
        (i < j /\ mDirectoryContents[i].isDir = mDirectoryContents[j].isDir)
            => localeAwareCompare(mDirectoryContents[i].name,
                                  mDirectoryContents[j].name) <= 0

\* two entries of one class whose collation order is not their code point order
C3_Witness ==
    /\ last.op \in {"setPath", "refresh", "rm", "rename"}
    /\ \E i \in Rows, j \in Rows :
          /\ i < j /\ mDirectoryContents[i].isDir = mDirectoryContents[j].isDir
          /\ LexCompare(mDirectoryContents[i].name, mDirectoryContents[j].name) > 0

\* C4: no row of the Listing has a name beginning with ".", also after a
\* Rename to a dot-prefixed name.
C4_NoHiddenRows == \A i \in Rows : ~Hidden(mDirectoryContents[i].name)

\* a listed entry was just renamed to a dot-prefixed name
C4_Witness ==
    /\ last.op = "rename" /\ last.ret /\ Hidden(last.newName)
    /\ last.newName \in Children(fs, mCurrentDir)
    /\ Len(mDirectoryContents) > 0

C6_ResetOncePerCommittedReload ==
    /\ (last.op = "setPath" /\ Missing(last.path)) => last.modelReset = 0
    /\ (last.op = "setPath" /\ ~Missing(last.path)) => last.modelReset = 1
    /\ last.op = "rm" => last.modelReset = 1
    /\ (last.op = "rename" /\ last.ret) => last.modelReset = 1

\* C7: Remove attempts the OS-level removal of every path of the batch, in
\* order, whatever the earlier removals returned.
C7_EveryPathAttempted ==
    last.op = "rm" =>
        [i \in 1..Len(last.removeCalls) |-> last.removeCalls[i].path] = last.paths

\* a batch whose first removal failed and whose second succeeded
C7_Witness ==
    /\ last.op = "rm" /\ Len(last.paths) = 2
    /\ Len(last.removeCalls) = 2
    /\ ~last.removeCalls[1].ok /\ last.removeCalls[2].ok

\* C8: every Remove performs exactly one reload of the current path, after
\* all removal attempts, so the Listing shows the directory as the removals
\* left it.
C8_RemoveReloadsAfterwards ==
    last.op = "rm" =>
        /\ last.modelReset = 1
        /\ IF mCurrentDir \in DirKeys THEN Reflects(fs, mCurrentDir)
           ELSE mDirectoryContents = <<>>

\* a Remove that deleted a file of the listed directory and left one listed
C8_Witness ==
    /\ last.op = "rm"
    /\ \E i \in 1..Len(last.removeCalls) :
          last.removeCalls[i].ok /\ last.removeCalls[i].path.dir = mCurrentDir
    /\ Len(mDirectoryContents) > 0

\* C9: Remove reports a failure diagnostic for a path if and only if the
\* removal of that path failed.
C9_DiagnosticIffFailed ==
    last.op = "rm" =>
        \A i \in 1..Len(last.removeCalls) :
            last.removeCalls[i].warned <=> ~last.removeCalls[i].ok

\* C10: when the rename primitive fails, for a file and for a directory,
\* Rename returns false, performs no reload and leaves the Listing as it was.
C10_FailedRenameKeepsListing ==
    [][(last'.op = "rename" /\ ~last'.ret)
        => /\ last'.modelReset = 0 /\ last'.pathChanged = 0
           /\ mDirectoryContents' = mDirectoryContents]_vars

\* the listing is ordered by fileCompare
Sorted ==
    \A i \in Rows, j \in Rows :
        i < j => ~fileCompare(mDirectoryContents[j], mDirectoryContents[i])

C20_RoleAssertionHolds ==
    /\ CtorAssertion(roleNames)
    /\ ~aborted
    /\ DOMAIN mRoleMapping = {roleNames[r] : r \in DOMAIN roleNames}
    /\ \A r \in DOMAIN roleNames : mRoleMapping[roleNames[r]] = r

Reloads == {"setPath", "refresh", "rm", "rename"}

\* C13: Field(row, roleKey) returns an empty value whenever row is outside
\* [0, RowCount()) or roleKey is not one of the eight role keys, raises no
\* fault, and in every case leaves the Listing, the path and the Role Map
\* unchanged and fires no notification.
C13_InvalidArgumentsGiveEmpty ==
    [][last'.op = "data"
        => /\ (~RowInRange(last'.row) \/ last'.stringRole \notin RoleKeys)
                 => last'.value = QVariantInvalid
           /\ ~aborted'
           /\ mDirectoryContents' = mDirectoryContents
           /\ mCurrentDir' = mCurrentDir
           /\ roleNames' = roleNames /\ mRoleMapping' = mRoleMapping
           /\ last'.modelReset = 0 /\ last'.pathChanged = 0
           /\ last'.signals = <<>>]_vars

\* a read of a role key of the table at a row past the end of the listing
C13_Witness ==
    /\ last.op = "data" /\ last.stringRole \in RoleKeys
    /\ Len(mDirectoryContents) > 0
    /\ last.row >= Len(mDirectoryContents)

\* C14: two Refresh() calls in succession, with no filesystem change in
\* between, leave the same Listing (entries, order, attributes) and path.
C14_RefreshIdempotent ==
    [][(last.op = "refresh" /\ last'.op = "refresh")
        => /\ mDirectoryContents' = mDirectoryContents
           /\ mCurrentDir' = mCurrentDir]_vars

\* a Refresh of a readable directory with two listed entries
C14_Witness ==
    /\ last.op = "refresh" /\ mCurrentDir \in DirKeys
    /\ Len(mDirectoryContents) >= 2

\* the size text the tiers prescribe
TierText(s) ==
    IF s < 1024 THEN [number |-> Decimal(s), unit |-> " bytes"]
    ELSE IF s < 1024 * 1024 THEN [number |-> Decimal(s \div 1024), unit |-> " kb"]
    ELSE [number |-> Decimal((s \div 1024) \div 1024), unit |-> "mb"]

\* C15: the size field is the decimal of s and " bytes" below 1024, the
\* decimal of floor(s/1024) and " kb" below 1024*1024, else the decimal of
\* floor(floor(s/1024)/1024) and "mb"; 500 gives "500 bytes", 2048 "2 kb",
\* 5*1024*1024 "5mb".
C15_SizeTiers ==
    (last.op = "data" /\ last.stringRole = "fileSize" /\ last.row = 0
        /\ Len(mDirectoryContents) > 0)
        => LET s == mDirectoryContents[1].size
           IN  /\ last.value = QVariant(TierText(s))
               /\ s = 500 => last.value.v = [number |-> <<5, 0, 0>>, unit |-> " bytes"]
               /\ s = 2048 => last.value.v = [number |-> <<2>>, unit |-> " kb"]
               /\ s = 5 * 1024 * 1024 => last.value.v = [number |-> <<5>>, unit |-> "mb"]
               /\ s = 1023 => last.value.v.unit = " bytes"
               /\ s = 1024 => last.value.v = [number |-> <<1>>, unit |-> " kb"]
               /\ s = 1048575 => last.value.v = [number |-> <<1, 0, 2, 3>>, unit |-> " kb"]
               /\ s = 1048576 => last.value.v = [number |-> <<1>>, unit |-> "mb"]

\* the size field of a file of exactly 1024*1024 bytes was read
C15_Witness ==
    /\ last.op = "data" /\ last.stringRole = "fileSize"
    /\ Len(mDirectoryContents) > 0
    /\ mDirectoryContents[1].size = 1024 * 1024

C17_RemoveKeepsDirectories ==
    [][last'.op = "rm"
        => \A i \in 1..Len(last'.paths) :
              LET p == last'.paths[i]
              IN  fs[p.dir][p.name] = "dir"
                    => /\ fs'[p.dir][p.name] = "dir"
                       /\ ~last'.removeCalls[i].ok
                       /\ (p.dir = mCurrentDir /\ ~Hidden(p.name))
                             => \E r \in DOMAIN mDirectoryContents' :
                                   /\ mDirectoryContents'[r].name = p.name
                                   /\ mDirectoryContents'[r].isDir]_vars

\* a Remove of a listed directory
C17_Witness ==
    /\ last.op = "rm"
    /\ \E i \in 1..Len(last.paths) :
          /\ fs[last.paths[i].dir][last.paths[i].name] = "dir"
          /\ last.paths[i].dir = mCurrentDir
          /\ last.paths[i].name \in ListedNames

\* C18: path changed and listing changed are emitted only after the scanned
\* and sorted Listing and the new path are committed: a subscriber reading
\* the model inside either handler sees the committed path and Listing.
C18_SignalsAfterCommit ==
    /\ \A i \in 1..Len(last.signals) :
          /\ last.signals[i].path = mCurrentDir
          /\ last.signals[i].contents = mDirectoryContents
    /\ last.signals # <<>> =>
          /\ [i \in 1..Len(last.signals) |-> last.signals[i].signal]
                = <<"pathChanged", "modelReset">>
          /\ Sorted
          /\ mCurrentDir \in DirKeys => Reflects(fs, mCurrentDir)

\* a Load that committed a listing of two entries
C18_Witness ==
    /\ last.op = "setPath" /\ last.signals # <<>>
    /\ Len(mDirectoryContents) >= 2

\* C19: Refresh(), Remove and Rename never change the current path.
C19_CommandsKeepPath ==
    [][last'.op \in {"refresh", "rm", "rename"}
        => mCurrentDir' = mCurrentDir]_vars

\* a Refresh, Remove or Rename that reloaded a directory other than the
\* default one
C19_Witness ==
    /\ last.op \in {"refresh", "rm", "rename"} /\ last.modelReset = 1
    /\ mCurrentDir # DefaultDir
====
